---- MODULE Spec2Model ----
(***************************************************************************)
(* Model of chipy's value layer (include/chipy/Value.h): the Value class   *)
(* hierarchy, shared_ptr handles made by wrap_value / make_value,          *)
(* duplicate, PlainValue::set, value_cast, the comparison operators,       *)
(* bool_test, and the BitStream serialization (operator<< / read_value).   *)
(*                                                                         *)
(* Object, MemoryManager and BitStream are declared outside Value.h; the   *)
(* parts of them the value layer uses (the arena recorded by Object, the   *)
(* create_integer / create_boolean factories, the ordered byte stream)     *)
(* are modelled from the specification's description of them.              *)
(***************************************************************************)
EXTENDS Integers, Sequences, FiniteSets, TLC

\* ---------------------------------------------------------------- bounds
\* Number of Value objects after which the application constructs no more.
MaxValues == 2
\* Largest use_count a shared_ptr control block reaches.
MaxRefs == 2
\* Number of items (serialized values, foreign tags) ever put on the stream.
MaxStream == 2

\* ------------------------------------------------------- value universe
\* enum class ValueType, in declaration order (the ordinal is the index - 1).
ValueType ==
    << "Bool", "String", "Integer", "Float", "DictItems", "CppObject",
       "Attribute", "Builtin", "List", "Dictionary", "Iterator", "Tuple",
       "Alias", "Module", "Function" >>

\* The concrete classes Value.h defines.
Classes == {"BoolVal", "StringVal", "FloatVal", "IntVal", "Alias"}
PlainClasses == {"BoolVal", "StringVal", "FloatVal", "IntVal"}

\* The arenas (MemoryManager instances) values are constructed in.
Arenas == {"mem1", "mem2"}

\* The least int32_t.
INT32_MIN == -2147483647 - 1

\* Payloads the callers pass in. Doubles are written as their literals.
BoolVals   == {TRUE, FALSE}
IntVals    == {INT32_MIN, -1, 0, 42}
StringVals == {"", "3"}
FloatVals  == {"0.0", "1.0"}
AliasNames == {<<"os", "o">>}

Payloads(cls) ==
    CASE cls = "BoolVal"   -> BoolVals
      [] cls = "IntVal"    -> IntVals
      [] cls = "StringVal" -> StringVals
      [] cls = "FloatVal"  -> FloatVals
      [] cls = "Alias"     -> AliasNames

\* value_exception::what() of the two throw sites.
InvalidCast == "Invalid value cast"
UnsupportedSerialization == "Cannot serialize this type of value!"
NoExc == "none"

\* ------------------------------------------------------------- state
VARIABLES
    heap,       \* sequence of constructed Value objects; the index is the object
    ctl,        \* per object: the shared_ptr control block wrap_value made
    destroyed,  \* objects whose destructor has run (delete through a handle)
    bs,         \* BitStream contents: a sequence of bytes
    rpos,       \* BitStream read position: number of bytes consumed
    sent,       \* history: the items written to the stream, in order
    nread,      \* history: number of items the reader has consumed
    ctor,       \* history: per object, type() and arena at construction
    dup_from,   \* history: per object, the object it was duplicated from (0: none)
    ret         \* outcome of the last operation (return value or exception)

vars == <<heap, ctl, destroyed, bs, rpos, sent, nread, ctor, dup_from, ret>>

Ids == 1..Len(heap)
Live == {v \in Ids : ctl[v].use_count > 0 /\ v \notin destroyed}

Ret(op, a, b, val, exc) == [op |-> op, a |-> a, b |-> b, val |-> val, exc |-> exc]

\* ------------------------------------------------- constructors, type()
\* Object(mem): the object records the arena it is constructed in.
Object(mem) == [mem |-> mem]

\* Object::memory_manager(): the arena recorded at construction.
memory_manager(o) == o.mem

\* PlainValue(mem, val) : Value(mem), m_value(val)
PlainValue(cls, mem, val) == [cls |-> cls, mem |-> Object(mem).mem, m_value |-> val]

\* Alias(mem, name, as_name) : Value(mem), m_name(name), m_as_name(as_name)
AliasValue(mem, name, as_name) ==
    [cls |-> "Alias", mem |-> Object(mem).mem, m_name |-> name, m_as_name |-> as_name]

\* new (mem) T(mem, args...) for each concrete class T.
Construct(cls, mem, arg) ==
    IF cls = "Alias" THEN AliasValue(mem, arg[1], arg[2])
    ELSE PlainValue(cls, mem, arg)

\* The virtual type(): the template argument of PlainValue, or ValueType::Alias.
type(o) ==
    CASE o.cls = "BoolVal"   -> "Bool"
      [] o.cls = "StringVal" -> "String"
      [] o.cls = "FloatVal"  -> "Float"
      [] o.cls = "IntVal"    -> "Integer"
      [] o.cls = "Alias"     -> "Alias"

\* The ValueType a cast to class T asks for.
VariantOf(T) == type([cls |-> T])

\* PlainValue::get()
get(o) == o.m_value

\* What the object holds: m_value, or the two names of an Alias.
payload(o) == IF o.cls = "Alias" THEN <<o.m_name, o.m_as_name>> ELSE o.m_value

\* Variant: the handle does not own the object (the arena would).
wrap_value_unowned == [use_count |-> 1, deleter |-> "none"]

\* wrap_value(T* val): a fresh shared_ptr with the default deleter.
wrap_value == [use_count |-> 1, deleter |-> "delete"]

\* ------------------------------------------------------------ duplicate
BoolVal_duplicate(o, mem)   == PlainValue("BoolVal", mem, o.m_value)
StringVal_duplicate(o, mem) == PlainValue("StringVal", mem, o.m_value)
FloatVal_duplicate(o, mem)  == PlainValue("FloatVal", mem, o.m_value)
IntVal_duplicate(o, mem)    == PlainValue("IntVal", mem, o.m_value)
Alias_duplicate(o, mem)     == AliasValue(mem, o.m_name, o.m_as_name)

\* virtual ValuePtr duplicate(MemoryManager &mem): dispatch on the dynamic class.
duplicate_into(o, mem) ==
    CASE o.cls = "BoolVal"   -> BoolVal_duplicate(o, mem)
      [] o.cls = "StringVal" -> StringVal_duplicate(o, mem)
      [] o.cls = "FloatVal"  -> FloatVal_duplicate(o, mem)
      [] o.cls = "IntVal"    -> IntVal_duplicate(o, mem)
      [] o.cls = "Alias"     -> Alias_duplicate(o, mem)

\* Variant: the no-argument overload duplicates into a fixed default arena.
duplicate_target_default(o) == "mem1"

\* ValuePtr duplicate(): the arena the no-argument overload passes on.
duplicate_target(o) == memory_manager(o)

\* --------------------------------------------------------- bool_test
\* Variant: an integer is true only when positive.
bool_test_positive(o) ==
    CASE o.cls = "BoolVal" -> o.m_value
      [] o.cls = "IntVal"  -> o.m_value > 0
      [] OTHER             -> TRUE

bool_test(o) ==
    CASE o.cls = "BoolVal" -> o.m_value
      [] o.cls = "IntVal"  -> o.m_value # 0
      [] OTHER             -> TRUE

\* --------------------------------------------------------- value_cast
\* std::dynamic_pointer_cast<T>(val): non-null iff the dynamic class is T.
dynamic_pointer_cast(T, o) == o.cls = T

\* Variant: the null result of the pointer cast is returned as it is.
value_cast_unchecked(T, v, o) ==
    IF dynamic_pointer_cast(T, o)
    THEN [val |-> v, exc |-> NoExc]
    ELSE [val |-> 0, exc |-> NoExc]

\* value_cast<T>(val): the handle itself, or the exception.
value_cast(T, v, o) ==
    IF dynamic_pointer_cast(T, o)
    THEN [val |-> v, exc |-> NoExc]
    ELSE [val |-> 0, exc |-> InvalidCast]

\* --------------------------------------------------------- comparisons
operator_gt(first, second) ==
    IF type(first) = "Integer" /\ type(second) = "Integer"
    THEN get(first) > get(second)
    ELSE FALSE

\* Variant: >= answers as > does.
operator_ge_strict(first, second) ==
    IF type(first) = "Integer" /\ type(second) = "Integer"
    THEN get(first) > get(second)
    ELSE FALSE

operator_ge(first, second) ==
    IF type(first) = "Integer" /\ type(second) = "Integer"
    THEN get(first) >= get(second)
    ELSE FALSE

\* Variant: equality of the payloads of any two plain values of one type.
operator_eq_any_plain(first, second) ==
    IF type(first) = type(second) /\ type(first) # "Alias"
    THEN get(first) = get(second)
    ELSE FALSE

operator_eq(first, second) ==
    IF type(first) = "String" /\ type(second) = "String"
    THEN get(first) = get(second)
    ELSE IF type(first) = "Integer" /\ type(second) = "Integer"
         THEN get(first) = get(second)
         ELSE FALSE

\* ------------------------------------------------------------- Init
Init ==
    /\ heap = <<>>
    /\ ctl = <<>>
    /\ destroyed = {}
    /\ bs = <<>>
    /\ rpos = 0
    /\ sent = <<>>
    /\ nread = 0
    /\ ctor = <<>>
    /\ dup_from = <<>>
    /\ ret = Ret("init", 0, 0, 0, NoExc)

\* Storage for one more object in the arena, wrapped in a first handle.
Allocate(o, src) ==
    /\ heap' = Append(heap, o)
    /\ ctl' = Append(ctl, wrap_value)
    /\ ctor' = Append(ctor, [type |-> type(o), mem |-> o.mem])
    /\ dup_from' = Append(dup_from, src)

\* make_value<T>(mem, args...)
make_value(cls, mem, arg) ==
    /\ Len(heap) < MaxValues
    /\ Allocate(Construct(cls, mem, arg), 0)
    /\ ret' = Ret("make_value", arg, mem, Len(heap) + 1, NoExc)
    /\ UNCHANGED <<destroyed, bs, rpos, sent, nread>>

\* v->duplicate()
duplicate(v) ==
    /\ v \in Live
    /\ Len(heap) < MaxValues
    /\ Allocate(duplicate_into(heap[v], duplicate_target(heap[v])), v)
    /\ ret' = Ret("duplicate", v, 0, Len(heap) + 1, NoExc)
    /\ UNCHANGED <<destroyed, bs, rpos, sent, nread>>

\* v->duplicate(mem)
duplicate_mem(v, mem) ==
    /\ v \in Live
    /\ Len(heap) < MaxValues
    /\ Allocate(duplicate_into(heap[v], mem), v)
    /\ ret' = Ret("duplicate_mem", v, mem, Len(heap) + 1, NoExc)
    /\ UNCHANGED <<destroyed, bs, rpos, sent, nread>>

\* Variant: a duplicate shares the payload storage of its source, so a write
\* through one is seen through the other.
PlainValue_set_shared(h, v, x) ==
    [o \in DOMAIN h |->
        IF o = v \/ dup_from[o] = v \/ dup_from[v] = o
        THEN [h[o] EXCEPT !.m_value = x]
        ELSE h[o]]

\* PlainValue::set(v): m_value = v
PlainValue_set(h, v, x) == [h EXCEPT ![v].m_value = x]

set(v, x) ==
    /\ v \in Live
    /\ heap[v].cls \in PlainClasses
    /\ heap' = PlainValue_set(heap, v, x)
    /\ ret' = Ret("set", v, 0, 0, NoExc)
    /\ UNCHANGED <<ctl, destroyed, bs, rpos, sent, nread, ctor, dup_from>>

\* The expression value_cast<T>(v). The handle it returns is a temporary of the
\* expression: the copies made for the parameter and the result are released
\* again when it ends, so the control block is as before.
ValueCast(T, v) ==
    /\ v \in Live
    /\ LET r == value_cast(T, v, heap[v]) IN
        ret' = Ret("value_cast", v, T, r.val, r.exc)
    /\ UNCHANGED <<heap, ctl, destroyed, bs, rpos, sent, nread, ctor, dup_from>>

\* first > second, first >= second, first == second
Compare(op, a, b) ==
    /\ a \in Live /\ b \in Live
    /\ ret' = Ret(op, a, b,
                  CASE op = ">"  -> operator_gt(heap[a], heap[b])
                    [] op = ">=" -> operator_ge(heap[a], heap[b])
                    [] op = "==" -> operator_eq(heap[a], heap[b]),
                  NoExc)
    /\ UNCHANGED <<heap, ctl, destroyed, bs, rpos, sent, nread, ctor, dup_from>>

\* v->bool_test()
BoolTest(v) ==
    /\ v \in Live
    /\ ret' = Ret("bool_test", v, 0, bool_test(heap[v]), NoExc)
    /\ UNCHANGED <<heap, ctl, destroyed, bs, rpos, sent, nread, ctor, dup_from>>

\* ------------------------------------------------ BitStream primitives
\* The stream stores every primitive in its fixed-width native encoding:
\* 4 bytes, least significant first, for an int32_t and for the ValueType
\* enumerator; one byte for a bool. (Arithmetic stays within 32 bits.)
Enc32(n) ==
    LET b1 == n % 256
        n1 == (n - b1) \div 256
        b2 == n1 % 256
        n2 == (n1 - b2) \div 256
        b3 == n2 % 256
        n3 == (n2 - b3) \div 256
    IN  << b1, b2, b3, n3 % 256 >>

\* The top byte carries the sign (two's complement).
Dec32(b) ==
    LET hi == IF b[4] >= 128 THEN b[4] - 256 ELSE b[4] IN
    ((hi * 256 + b[3]) * 256 + b[2]) * 256 + b[1]

EncBool(b) == << IF b THEN 1 ELSE 0 >>
DecBool(b) == b[1] # 0

\* Ordinal of an enumerator of ValueType.
Ordinal(t) == (CHOOSE i \in 1..Len(ValueType) : ValueType[i] = t) - 1

\* bs << ValueType and bs >> ValueType
EncTag(t) == Enc32(Ordinal(t))
DecTag(b) ==
    LET n == Dec32(b) IN
    IF n >= 0 /\ n < Len(ValueType) THEN ValueType[n + 1] ELSE "invalid"

\* The next n unread bytes.
Peek(n) == SubSeq(bs, rpos + 1, rpos + n)
Unread == Len(bs) - rpos

\* ------------------------------------------------------- serialization
\* Variant: the payload is written before the tag.
operator_shl_payload_first(o) ==
    CASE type(o) = "Integer" -> [out |-> Enc32(get(o)) \o EncTag("Integer"), exc |-> NoExc]
      [] type(o) = "Bool"    -> [out |-> EncBool(get(o)) \o EncTag("Bool"), exc |-> NoExc]
      [] OTHER               -> [out |-> <<>>, exc |-> UnsupportedSerialization]

\* Variant: the tag is written before the switch on the type.
operator_shl_tag_first(o) ==
    CASE type(o) = "Integer" -> [out |-> EncTag("Integer") \o Enc32(get(o)), exc |-> NoExc]
      [] type(o) = "Bool"    -> [out |-> EncTag("Bool") \o EncBool(get(o)), exc |-> NoExc]
      [] OTHER               -> [out |-> EncTag(type(o)), exc |-> UnsupportedSerialization]

\* operator<<(BitStream &bs, ValuePtr val): the bytes written, or the exception.
operator_shl(o) ==
    CASE type(o) = "Integer" -> [out |-> EncTag("Integer") \o Enc32(get(o)), exc |-> NoExc]
      [] type(o) = "Bool"    -> [out |-> EncTag("Bool") \o EncBool(get(o)), exc |-> NoExc]
      [] OTHER               -> [out |-> <<>>, exc |-> UnsupportedSerialization]

\* MemoryManager::create_integer / create_boolean: a value made in this arena.
create_integer(mem, i) == Construct("IntVal", mem, i)
create_boolean(mem, b) == Construct("BoolVal", mem, b)

\* Variant: an unsupported tag still yields a default-constructed integer.
read_value_default(b, mem) ==
    LET t == DecTag(SubSeq(b, 1, 4)) IN
    CASE t = "Integer" ->
            [used |-> 8, obj |-> <<create_integer(mem, Dec32(SubSeq(b, 5, 8)))>>, exc |-> NoExc]
      [] t = "Bool" ->
            [used |-> 5, obj |-> <<create_boolean(mem, DecBool(SubSeq(b, 5, 5)))>>, exc |-> NoExc]
      [] OTHER ->
            [used |-> 4, obj |-> <<create_integer(mem, 0)>>, exc |-> NoExc]

\* read_value(bs, mem) on the unread bytes b: the bytes consumed, and the
\* object constructed or the exception.
read_value(b, mem) ==
    LET t == DecTag(SubSeq(b, 1, 4)) IN
    CASE t = "Integer" ->
            [used |-> 8, obj |-> <<create_integer(mem, Dec32(SubSeq(b, 5, 8)))>>, exc |-> NoExc]
      [] t = "Bool" ->
            [used |-> 5, obj |-> <<create_boolean(mem, DecBool(SubSeq(b, 5, 5)))>>, exc |-> NoExc]
      [] OTHER ->
            [used |-> 4, obj |-> <<>>, exc |-> UnsupportedSerialization]

\* Tags of values some other producer put on the stream.
ForeignTags == {"String", "Function"}

\* bs << val
Serialize(v) ==
    /\ v \in Live
    /\ Len(sent) < MaxStream
    /\ LET r == operator_shl(heap[v]) IN
        /\ bs' = bs \o r.out
        /\ sent' = IF r.exc = NoExc
                   THEN Append(sent, <<type(heap[v]), get(heap[v])>>)
                   ELSE sent
        /\ ret' = Ret("serialize", v, 0, 0, r.exc)
    /\ UNCHANGED <<heap, ctl, destroyed, rpos, nread, ctor, dup_from>>

\* bs << t, by a producer of values this core does not serialize
WriteTag(t) ==
    /\ Len(sent) < MaxStream
    /\ bs' = bs \o EncTag(t)
    /\ sent' = Append(sent, <<t, 0>>)
    /\ ret' = Ret("write_tag", 0, 0, 0, NoExc)
    /\ UNCHANGED <<heap, ctl, destroyed, rpos, nread, ctor, dup_from>>

\* read_value(bs, mem)
ReadValue(mem) ==
    /\ Unread >= 4
    /\ LET r == read_value(SubSeq(bs, rpos + 1, Len(bs)), mem) IN
        /\ r.used <= Unread
        /\ rpos' = rpos + r.used
        /\ nread' = nread + 1
        /\ IF r.exc = NoExc
           THEN /\ Allocate(r.obj[1], 0)
                /\ ret' = Ret("read_value", 0, mem, Len(heap) + 1, NoExc)
           ELSE /\ ret' = Ret("read_value", 0, mem, 0, r.exc)
                /\ UNCHANGED <<heap, ctl, ctor, dup_from>>
    /\ UNCHANGED <<destroyed, bs, sent>>

\* ------------------------------------------------------------- handles
\* Copying a ValuePtr.
CopyHandle(v) ==
    /\ v \in Live
    /\ ctl[v].use_count < MaxRefs
    /\ ctl' = [ctl EXCEPT ![v].use_count = @ + 1]
    /\ ret' = Ret("copy", v, 0, 0, NoExc)
    /\ UNCHANGED <<heap, destroyed, bs, rpos, sent, nread, ctor, dup_from>>

\* A ValuePtr going out of scope; the last one runs the deleter.
ReleaseHandle(v) ==
    /\ v \in Live
    /\ ctl' = [ctl EXCEPT ![v].use_count = @ - 1]
    /\ destroyed' = IF ctl[v].use_count = 1 /\ ctl[v].deleter = "delete"
                    THEN destroyed \cup {v}
                    ELSE destroyed
    /\ ret' = Ret("release", v, 0, 0, NoExc)
    /\ UNCHANGED <<heap, bs, rpos, sent, nread, ctor, dup_from>>

\* ------------------------------------------------------ specifications
MakeAny == \E cls \in Classes, mem \in Arenas : \E arg \in Payloads(cls) : make_value(cls, mem, arg)

SetAny == \E v \in Ids : \E x \in Payloads(heap[v].cls) : set(v, x)

\* Construction, duplication and mutation of values.
Next ==
    \/ MakeAny
    \/ \E v \in Ids : duplicate(v)
    \/ \E v \in Ids, mem \in Arenas : duplicate_mem(v, mem)
    \/ SetAny

Spec == Init /\ [][Next]_vars

\* Typed casts of generic handles.
NextCast ==
    \/ MakeAny
    \/ SetAny
    \/ \E T \in Classes, v \in Ids : ValueCast(T, v)

SpecCast == Init /\ [][NextCast]_vars

\* The comparison predicates and truthiness.
NextPred ==
    \/ MakeAny
    \/ SetAny
    \/ \E op \in {">", ">=", "=="}, a \in Ids, b \in Ids : Compare(op, a, b)
    \/ \E v \in Ids : BoolTest(v)

SpecPred == Init /\ [][NextPred]_vars

\* The serialization protocol: a producer, whose values live in its own arena,
\* and a reader that decodes into an arena of its choice, on one stream.
ProducerArena == "mem1"
MakeProducer == \E cls \in Classes : \E arg \in Payloads(cls) : make_value(cls, ProducerArena, arg)

NextStream ==
    \/ MakeProducer
    \/ \E v \in Ids : Serialize(v)
    \/ \E t \in ForeignTags : WriteTag(t)
    \/ \E mem \in Arenas : ReadValue(mem)

SpecStream == Init /\ [][NextStream]_vars

\* Handle lifetime: handles copied and released in any order.
NextLife ==
    \/ MakeAny
    \/ \E v \in Ids : duplicate(v)
    \/ \E v \in Ids : CopyHandle(v)
    \/ \E v \in Ids : ReleaseHandle(v)

SpecLife == Init /\ [][NextLife]_vars

\* ====================================================== serialization
Serializable == {"Integer", "Bool"}

\* Every item written to the stream so far is a serialized Integer or Bool.
OnlySerialized == \A k \in 1..Len(sent) : sent[k][1] \in Serializable

\* The tag at the read position.
NextTag == DecTag(Peek(4))

\* C1: on a stream that holds only serialized Integer and Bool values, the
\* k-th read_value returns a value with the type and payload of the k-th
\* serialized value, owned by the arena the caller passed, and once as many
\* values are read as were serialized the stream is fully consumed.
C1_RoundTrip ==
    (OnlySerialized /\ ret.op = "read_value") =>
        /\ ret.exc = NoExc
        /\ nread <= Len(sent)
        /\ ret.val \in Ids
        /\ type(heap[ret.val]) = sent[nread][1]
        /\ get(heap[ret.val]) = sent[nread][2]
        /\ memory_manager(heap[ret.val]) = ret.b
        /\ (nread = Len(sent) => rpos = Len(bs))

\* Two values, a negative Integer then a Bool, written and read back in order
\* into the arena the producer does not use.
C1_Witness ==
    /\ OnlySerialized /\ ret.op = "read_value"
    /\ Len(sent) >= 2 /\ nread = Len(sent) /\ rpos = Len(bs)
    /\ sent[1][1] = "Integer" /\ sent[1][2] < 0
    /\ sent[nread][1] = "Bool"
    /\ ret.b # ProducerArena

\* C3: serializing a value whose type() is neither Integer nor Bool throws
\* the serialization exception and leaves the stream exactly as it was.
C3_EncodeAtomic ==
    [][ (ret'.op = "serialize" /\ type(heap[ret'.a]) \notin Serializable) =>
            /\ ret'.exc = UnsupportedSerialization
            /\ bs' = bs
            /\ rpos' = rpos ]_vars

\* A failed serialization on a stream that already has contents.
C3_Witness ==
    /\ ret.op = "serialize" /\ ret.exc = UnsupportedSerialization
    /\ type(heap[ret.a]) = "String"
    /\ Len(bs) > 0

\* C4 as stated: a read_value that fails on an unsupported tag constructs no
\* value and leaves the read position and the contents as before the call.
C4_DecodeLeavesStream ==
    [][ (ret'.op = "read_value" /\ ret'.exc # NoExc) =>
            /\ heap' = heap
            /\ bs' = bs
            /\ rpos' = rpos ]_vars

\* C4 amended: a read_value whose next tag is neither Integer nor Bool throws
\* the serialization exception and constructs no value; the contents are
\* untouched, but the tag has been consumed: the read position is past it.
C4_DecodeConsumesTag ==
    [][ (ret'.op = "read_value" /\ Unread >= 4 /\ NextTag \notin Serializable) =>
            /\ ret'.exc = UnsupportedSerialization
            /\ ret'.val = 0
            /\ heap' = heap /\ ctl' = ctl
            /\ bs' = bs
            /\ rpos' = rpos + 4 ]_vars

\* A failed read with unread contents behind the consumed tag.
C4_Witness ==
    /\ ret.op = "read_value" /\ ret.exc = UnsupportedSerialization
    /\ rpos >= 4 /\ rpos < Len(bs)

\* ============================================================== casts
\* C2: value_cast<T>(v) succeeds exactly when v's type() is the variant of T.
\* On success it returns a handle to v itself and changes nothing, so a value
\* cast right after its construction still has the constructor's argument as
\* payload; on mismatch it throws the invalid-cast exception and returns no
\* handle.
C2_TypedCast ==
    [][ ret'.op = "value_cast" =>
            LET v == ret'.a
                T == ret'.b
            IN  /\ (ret'.exc = NoExc) <=> (type(heap[v]) = VariantOf(T))
                /\ ret'.exc = NoExc =>
                      /\ ret'.val = v
                      /\ ret'.val \in Live'
                      /\ heap' = heap
                /\ ret'.exc # NoExc =>
                      /\ ret'.exc = InvalidCast
                      /\ ret'.val = 0
                /\ (ret'.exc = NoExc /\ ret.op = "make_value" /\ ret.val = v) =>
                      payload(heap'[ret'.val]) = ret.a ]_vars

\* A cast to StringVal that succeeded and handed back the value itself.
C2_Witness ==
    /\ ret.op = "value_cast" /\ ret.exc = NoExc
    /\ ret.b = "StringVal" /\ ret.val = ret.a
    /\ get(heap[ret.val]) = "3"

\* ======================================================== duplication
IsDuplicate(op) == op \in {"duplicate", "duplicate_mem"}

\* C5: duplicate(t) makes a new object, distinct from v, owned by t, with
\* v's type() and v's current payload; duplicate() does so with v's own
\* arena as t; v itself is unchanged.
C5_Duplicate ==
    [][ IsDuplicate(ret'.op) =>
            LET v == ret'.a
                n == ret'.val
                t == IF ret'.op = "duplicate" THEN memory_manager(heap[v]) ELSE ret'.b
            IN  /\ n \notin Ids /\ n \in 1..Len(heap')
                /\ n # v
                /\ memory_manager(heap'[n]) = t
                /\ type(heap'[n]) = type(heap[v])
                /\ payload(heap'[n]) = payload(heap[v])
                /\ heap'[v] = heap[v]
                /\ \A o \in Ids : heap'[o] = heap[o] ]_vars

\* A duplicate() of a value that lives in the second arena.
C5_Witness ==
    /\ ret.op = "duplicate"
    /\ memory_manager(heap[ret.a]) = "mem2"
    /\ heap[ret.val] = heap[ret.a]
    /\ ret.val # ret.a

\* C6: set(x) on v changes only v's payload. The type() and the arena of
\* every value are those of its construction, and a set leaves every other
\* value, the duplicates of v and the source of v included, as it was.
C6_SetFrame ==
    /\ [](\A v \in Ids : type(heap[v]) = ctor[v].type /\ memory_manager(heap[v]) = ctor[v].mem)
    /\ [][ ret'.op = "set" =>
            LET v == ret'.a
            IN  /\ Len(heap') = Len(heap)
                /\ heap'[v].cls = heap[v].cls
                /\ heap'[v].mem = heap[v].mem
                /\ \A o \in Ids \ {v} : heap'[o] = heap[o] ]_vars

\* After a set, a value and its duplicate (or its source) differ in payload.
C6_Witness ==
    /\ ret.op = "set"
    /\ \E o \in Ids :
          /\ dup_from[o] = ret.a \/ dup_from[ret.a] = o
          /\ get(heap[o]) # get(heap[ret.a])

BothOf(t, a, b) == type(heap[a]) = t /\ type(heap[b]) = t

\* C8: == is true iff both values are String with equal text or both are
\* Integer with equal payload, false for every other pair, and never throws.
C8_Equals ==
    ret.op = "==" =>
        /\ ret.exc = NoExc
        /\ ret.val <=>
              \/ BothOf("String", ret.a, ret.b) /\ get(heap[ret.a]) = get(heap[ret.b])
              \/ BothOf("Integer", ret.a, ret.b) /\ get(heap[ret.a]) = get(heap[ret.b])

\* Two distinct Float values with equal payloads compare unequal.
C8_Witness ==
    /\ ret.op = "==" /\ ret.a # ret.b
    /\ BothOf("Float", ret.a, ret.b)
    /\ get(heap[ret.a]) = get(heap[ret.b])
    /\ ret.val = FALSE

\* C9: > (>=) is true iff both values are Integer and the first payload is
\* greater than (greater than or equal to) the second, false for every
\* other pair, and never throws.
C9_Ordering ==
    /\ ret.op = ">" =>
        /\ ret.exc = NoExc
        /\ ret.val <=> (BothOf("Integer", ret.a, ret.b) /\ get(heap[ret.a]) > get(heap[ret.b]))
    /\ ret.op = ">=" =>
        /\ ret.exc = NoExc
        /\ ret.val <=> (BothOf("Integer", ret.a, ret.b) /\ get(heap[ret.a]) >= get(heap[ret.b]))

\* Two distinct Integer values with equal negative payloads: >= is true.
C9_Witness ==
    /\ ret.op = ">=" /\ ret.a # ret.b
    /\ BothOf("Integer", ret.a, ret.b)
    /\ get(heap[ret.a]) = get(heap[ret.b]) /\ get(heap[ret.a]) < 0
    /\ ret.val = TRUE

\* C10: bool_test() of a Bool is its current payload, of an Integer whether
\* its current payload is non-zero, and of every other variant true.
C10_Truthiness ==
    ret.op = "bool_test" =>
        LET o == heap[ret.a] IN
        /\ ret.exc = NoExc
        /\ type(o) = "Bool" => ret.val = get(o)
        /\ type(o) = "Integer" => (ret.val <=> get(o) # 0)
        /\ type(o) \notin {"Bool", "Integer"} => ret.val = TRUE

\* A negative Integer tests true.
C10_Witness ==
    /\ ret.op = "bool_test"
    /\ type(heap[ret.a]) = "Integer" /\ get(heap[ret.a]) < 0
    /\ ret.val = TRUE

====
